---- MODULE Spec2Model ----
(***************************************************************************)
(* Model of backend/app/main.py: the application bootstrap, the request    *)
(* pipeline (ServerErrorMiddleware > log_requests > TrustedHostMiddleware  *)
(* > CORSMiddleware > ExceptionMiddleware > router), the two health        *)
(* endpoints, the two exception handlers and the lifespan hook.            *)
(*                                                                         *)
(* Strings that the code inspects are kept as token sequences so that the  *)
(* inspection is computed: a Host header is the sequence of its labels and *)
(* separators ("localhost:8000" is <<"localhost", ":", "8000">>), a path   *)
(* is the sequence of its segments after the leading slash ("/" is <<"">>, *)
(* "/api/health/" is <<"api", "health", "">>).                             *)
(***************************************************************************)
EXTENDS Integers, Sequences, FiniteSets, TLC

VARIABLES
    phase,          \* process lifetime: "init", "imported", "serving", "stopped", "crashed", "killed"
    tablesCreated,  \* Base.metadata.create_all has run
    now,            \* the wall clock read by datetime.utcnow()
    calls,          \* every call made on the module logger, in order
    req             \* per in-flight request: its locals and where it stands

vars == <<phase, tablesCreated, now, calls, req>>

\* Number of requests that may overlap.
MaxInFlight == 2

Slots == 1..MaxInFlight

----------------------------------------------------------------------------
(* Values *)

NoExc == [type |-> "None", status_code |-> 0, detail |-> ""]

NoJson == [none |-> TRUE]

NoResp == [status |-> 0, media |-> "", json |-> NoJson, text |-> "", headers |-> {}]

RedirectResponse(location) ==
    [status |-> 307, media |-> "", json |-> NoJson, text |-> "",
     headers |-> {<<"location", location>>}]

JSONResponse(content, status) ==
    [status |-> status, media |-> "json", json |-> content, text |-> "", headers |-> {}]

PlainTextResponse(text, status) ==
    [status |-> status, media |-> "text", json |-> NoJson, text |-> text, headers |-> {}]

\* What an exception handler or an endpoint hands back: a plain dict or a Response.
Dict(content) == [kind |-> "dict", content |-> content, resp |-> NoResp]

NoValue == [kind |-> "none", content |-> NoJson, resp |-> NoResp]

\* The outcome of running part of the pipeline.
Returned(resp, logs, endpoint, handlers) ==
    [kind |-> "response", resp |-> resp, exc |-> NoExc, logs |-> logs,
     endpoint |-> endpoint, handlers |-> handlers]

Raised(exc, logs, endpoint, handlers) ==
    [kind |-> "raise", resp |-> NoResp, exc |-> exc, logs |-> logs,
     endpoint |-> endpoint, handlers |-> handlers]

NoResult ==
    [kind |-> "none", resp |-> NoResp, exc |-> NoExc, logs |-> <<>>,
     endpoint |-> "none", handlers |-> {}]

----------------------------------------------------------------------------
(* Logging *)

LevelNo(level) ==
    CASE level = "DEBUG" -> 10
      [] level = "INFO" -> 20
      [] level = "WARNING" -> 30
      [] level = "ERROR" -> 40

\* logging.basicConfig(level=logging.INFO, ...)
LOG_LEVEL == LevelNo("INFO")

\* req is the request on whose behalf the call is made (0: none).
LogCall(level, tag, text, info) ==
    [level |-> level, tag |-> tag, text |-> text, info |-> info, req |-> 0]

OnBehalf(logs, r) == [i \in DOMAIN logs |-> [logs[i] EXCEPT !.req = r]]

NoInfo == [none |-> TRUE]

\* A record is written to stdout only at or above the configured level.
Emitted(rec) == LevelNo(rec.level) >= LOG_LEVEL

----------------------------------------------------------------------------
(* Collaborators: configuration, database, websocket manager, route groups *)

\* settings.CORS_ORIGINS: the configured allow-list of origins.
CORS_ORIGINS == {"http://localhost:3000"}

\* What a collaborator can raise: anything that is not an HTTPException.
Faults ==
    { [type |-> "OperationalError", status_code |-> 0, detail |-> "could not connect to server"],
      [type |-> "RuntimeError", status_code |-> 0, detail |-> "registry unavailable"] }

HTTPException(status_code, detail) ==
    [type |-> "HTTPException", status_code |-> status_code, detail |-> detail]

\* starlette.exceptions.HTTPException, the base class the router raises.
StarletteHTTPException(status_code, detail) ==
    [type |-> "StarletteHTTPException", status_code |-> status_code, detail |-> detail]

\* Application errors a mounted route group raises on purpose.
AppErrors ==
    { HTTPException(401, "Invalid credentials"),
      HTTPException(404, "User not found") }

\* One run of the collaborators: which call site fails, and with what.
NoScript == [site |-> "none", exc |-> NoExc]

Scripts(endpoint, faults) ==
    CASE endpoint = "root" ->
           {NoScript} \cup [site : {"manager"}, exc : faults]
      [] endpoint = "health_check" ->
           {NoScript} \cup [site : {"get_db", "count", "manager"}, exc : faults]
      [] endpoint = "auth" ->
           {NoScript} \cup [site : {"route"}, exc : faults \cup AppErrors]
      [] OTHER -> {NoScript}

----------------------------------------------------------------------------
(* Requests *)

LOCALHOST == <<"localhost">>

LOOPBACK == <<"127", ".", "0", ".", "0", ".", "1">>

Hosts ==
    { LOCALHOST,
      <<"localhost", ":", "8000">>,
      LOOPBACK,
      <<"app", ".", "example", ".", "com">>,
      <<"example", ".", "com">>,
      <<"attacker", ".", "com">>,
      <<"localhost", ".", "attacker", ".", "com">>,
      <<>> }

\* "" stands for a request without an Origin header.
Origins == {"", "http://localhost:3000", "https://evil.example"}

\* An OPTIONS request stands for a CORS preflight: it carries
\* Access-Control-Request-Method.
Methods == {"GET", "POST", "OPTIONS"}

Paths ==
    { <<"">>,
      <<"api", "health">>,
      <<"api", "health", "">>,
      <<"api", "auth", "login">>,
      <<"nope">> }

Requests == [method : Methods, host : Hosts, origin : Origins, path : Paths]

\* The requests used when several are in flight at once.
ConcRequests ==
    { [method |-> "GET", host |-> LOCALHOST, origin |-> "", path |-> <<"">>],
      [method |-> "GET", host |-> LOOPBACK, origin |-> "", path |-> <<"api", "health">>],
      [method |-> "POST", host |-> <<"attacker", ".", "com">>, origin |-> "", path |-> <<"nope">>] }

NoRequest == [method |-> "", host |-> <<>>, origin |-> "", path |-> <<>>]

----------------------------------------------------------------------------
(* Endpoints *)

root(c) ==
    IF c.site = "manager"
    THEN [kind |-> "raise", exc |-> c.exc, value |-> NoValue, logs |-> <<>>]
    ELSE [kind |-> "return", exc |-> NoExc, logs |-> <<>>,
          value |-> Dict([status |-> "healthy", service |-> "APP_NAME",
                          version |-> "1.0.0", active_users |-> 0])]

health_check(c) ==
    IF c.site = "get_db"
    THEN \* Depends(get_db) is resolved before the body, outside its try block
         [kind |-> "raise", exc |-> c.exc, value |-> NoValue, logs |-> <<>>]
    ELSE IF c.site \in {"count", "manager"}
    THEN [kind |-> "raise", exc |-> HTTPException(500, "Health check failed"),
          value |-> NoValue,
          logs |-> << LogCall("ERROR", "health_check_failed", c.exc.detail, NoInfo) >>]
    ELSE [kind |-> "return", exc |-> NoExc, logs |-> <<>>,
          value |-> Dict([status |-> "ok", database |-> "connected",
                          websocket_manager |-> "active", active_users |-> 0,
                          total_users |-> 0])]

\* A handler of a mounted route group: delegated, so any outcome is possible.
mounted(c) ==
    IF c.site = "route"
    THEN [kind |-> "raise", exc |-> c.exc, value |-> NoValue, logs |-> <<>>]
    ELSE [kind |-> "return", exc |-> NoExc, logs |-> <<>>,
          value |-> Dict([delegated |-> TRUE])]

Endpoint(name, c) ==
    CASE name = "root" -> root(c)
      [] name = "health_check" -> health_check(c)
      [] name = "auth" -> mounted(c)

\* Routes registered by main.py itself.
AppRoutes ==
    << [path |-> <<"">>, methods |-> {"GET"}, endpoint |-> "root"],
       [path |-> <<"api", "health">>, methods |-> {"GET"}, endpoint |-> "health_check"] >>

\* A representative route of the mounted groups.
MountedRoutes ==
    << [path |-> <<"api", "auth", "login">>, methods |-> {"POST"}, endpoint |-> "auth"] >>

Routes == AppRoutes \o MountedRoutes

----------------------------------------------------------------------------
(* Exception handlers *)

Envelope(error, status_code) ==
    [success |-> FALSE, error |-> error, status_code |-> status_code]

\* @app.exception_handler(HTTPException): returns a dict, not a Response.
http_exception_handler(exc) ==
    [value |-> Dict(Envelope(exc.detail, exc.status_code)),
     logs |-> << LogCall("WARNING", "http_exception", exc.detail,
                         [status_code |-> exc.status_code]) >>]

\* @app.exception_handler(Exception): returns a dict, not a Response.
general_exception_handler(exc) ==
    [value |-> Dict(Envelope("Internal server error", 500)),
     logs |-> << LogCall("ERROR", "unhandled_exception", exc.detail, NoInfo) >>]

\* The handler FastAPI itself installs for the base HTTPException class.
default_http_exception_handler(exc) ==
    [value |-> [kind |-> "response", content |-> NoJson,
                resp |-> JSONResponse([detail |-> exc.detail], exc.status_code)],
     logs |-> <<>>]

\* Raised by `await response(scope, receive, send)` when response is a dict.
NotCallable ==
    [type |-> "TypeError", status_code |-> 0, detail |-> "'dict' object is not callable"]

\* Variant: a dict returned by a handler is serialised into a 200 JSON
\* response, as the dict returned by an endpoint is.
SendHandled_serialise(value) ==
    IF value.kind = "response"
    THEN [kind |-> "sent", resp |-> value.resp, exc |-> NoExc]
    ELSE [kind |-> "sent", resp |-> JSONResponse(value.content, 200), exc |-> NoExc]

\* The framework sends what a handler returned by calling it as an ASGI
\* application: a Response is sent, anything else raises.
SendHandled(value) ==
    IF value.kind = "response"
    THEN [kind |-> "sent", resp |-> value.resp, exc |-> NoExc]
    ELSE [kind |-> "raise", resp |-> NoResp, exc |-> NotCallable]

\* Variant: the handler is registered for the base HTTPException class, so
\* it also serves the 404 and 405 the router raises.
LookupHandler_base(exc) ==
    CASE exc.type \in {"HTTPException", "StarletteHTTPException"} -> "http_exception_handler"
      [] OTHER -> "none"

\* Handlers are looked up along the class hierarchy of the exception: the
\* handler registered for fastapi.HTTPException serves that class only, its
\* base class (what the router raises for 404 and 405) keeps the default one,
\* and the handler registered for Exception is moved to ServerErrorMiddleware.
LookupHandler(exc) ==
    CASE exc.type = "HTTPException" -> "http_exception_handler"
      [] exc.type = "StarletteHTTPException" -> "default_http_exception_handler"
      [] OTHER -> "none"

RunHandler(name, exc) ==
    CASE name = "http_exception_handler" -> http_exception_handler(exc)
      [] name = "default_http_exception_handler" -> default_http_exception_handler(exc)
      [] name = "general_exception_handler" -> general_exception_handler(exc)

----------------------------------------------------------------------------
(* Routing *)

Match(route, rq_method, rq_path) ==
    IF route.path # rq_path THEN "NONE"
    ELSE IF rq_method \in route.methods THEN "FULL"
    ELSE "PARTIAL"

RECURSIVE StripSlashes(_)
StripSlashes(p) ==
    IF p # <<>> /\ p[Len(p)] = "" THEN StripSlashes(SubSeq(p, 1, Len(p) - 1)) ELSE p

\* The path with its trailing slash removed, or added when it has none.
ToggleSlash(p) ==
    IF p[Len(p)] = "" THEN StripSlashes(p) ELSE Append(p, "")

FirstMatch(kind, rq_method, rq_path) ==
    LET hits == { i \in DOMAIN Routes : Match(Routes[i], rq_method, rq_path) = kind }
    IN  IF hits = {} THEN 0 ELSE CHOOSE i \in hits : \A j \in hits : i <= j

\* An endpoint that returns a dict has it serialised into a 200 JSON response.
APIRoute(name, c) ==
    LET out == Endpoint(name, c)
    IN  IF out.kind = "raise"
        THEN Raised(out.exc, out.logs, name, {})
        ELSE Returned(JSONResponse(out.value.content, 200), out.logs, name, {})

Router(rq, c) ==
    LET full == FirstMatch("FULL", rq.method, rq.path)
        partial == FirstMatch("PARTIAL", rq.method, rq.path)
    IN  IF full # 0 THEN APIRoute(Routes[full].endpoint, c)
        ELSE IF partial # 0
        THEN Raised(StarletteHTTPException(405, "Method Not Allowed"), <<>>, "none", {})
        ELSE IF rq.path # <<"">>
                /\ \E i \in DOMAIN Routes :
                       Match(Routes[i], rq.method, ToggleSlash(rq.path)) # "NONE"
        THEN Returned(RedirectResponse("slash-toggled"), <<>>, "none", {})
        ELSE Raised(StarletteHTTPException(404, "Not Found"), <<>>, "none", {})

\* ExceptionMiddleware, innermost: turns the exceptions it has a handler for
\* into responses and lets every other exception through.
ExceptionMiddleware(inner) ==
    IF inner.kind = "response" THEN inner
    ELSE LET name == LookupHandler(inner.exc)
         IN  IF name = "none" THEN inner
             ELSE LET h == RunHandler(name, inner.exc)
                      sent == SendHandled(h.value)
                  IN  IF sent.kind = "sent"
                      THEN Returned(sent.resp, inner.logs \o h.logs, inner.endpoint,
                                    inner.handlers \cup {name})
                      ELSE Raised(sent.exc, inner.logs \o h.logs, inner.endpoint,
                                  inner.handlers \cup {name})

----------------------------------------------------------------------------
(* Middlewares *)

EndsWith(s, suffix) ==
    /\ Len(suffix) <= Len(s)
    /\ SubSeq(s, Len(s) - Len(suffix) + 1, Len(s)) = suffix

RECURSIVE BeforeColon(_)
\* host.split(":")[0]
BeforeColon(h) ==
    IF h = <<>> \/ Head(h) = ":" THEN <<>> ELSE <<Head(h)>> \o BeforeColon(Tail(h))

allowed_hosts ==
    { LOCALHOST, LOOPBACK, <<"*", ".", "example", ".", "com">> }

\* Variant: a host is accepted when it starts with an allowed name.
HostMatches_prefix(host, pattern) ==
    \/ Len(pattern) <= Len(host) /\ SubSeq(host, 1, Len(pattern)) = pattern
    \/ Head(pattern) = "*" /\ EndsWith(host, Tail(pattern))

HostMatches(host, pattern) ==
    \/ host = pattern
    \/ Head(pattern) = "*" /\ EndsWith(host, Tail(pattern))

is_valid_host(header) ==
    \/ <<"*">> \in allowed_hosts
    \/ \E pattern \in allowed_hosts : HostMatches(BeforeColon(header), pattern)

found_www_redirect(header) ==
    \E pattern \in allowed_hosts : <<"www", ".">> \o BeforeColon(header) = pattern

TrustedHostMiddleware(rq, inner) ==
    IF is_valid_host(rq.host) THEN inner
    ELSE IF found_www_redirect(rq.host)
    THEN Returned(RedirectResponse("www"), <<>>, "none", {})
    ELSE Returned(PlainTextResponse("Invalid host header", 400), <<>>, "none", {})

allow_all_origins == "*" \in CORS_ORIGINS

is_allowed_origin(origin) == allow_all_origins \/ origin \in CORS_ORIGINS

ACAO == "access-control-allow-origin"

\* Headers added to the response of a request that carries an Origin header.
simple_headers(origin) ==
    {<<"access-control-allow-credentials", "true">>}
    \cup (IF allow_all_origins THEN {<<ACAO, "*">>}
          ELSE IF is_allowed_origin(origin) THEN {<<ACAO, origin>>}
          ELSE {})

preflight_response(origin) ==
    IF is_allowed_origin(origin)
    THEN [PlainTextResponse("OK", 200) EXCEPT
             !.headers = {<<ACAO, origin>>, <<"access-control-allow-credentials", "true">>}]
    ELSE [PlainTextResponse("Disallowed CORS origin", 400) EXCEPT
             !.headers = {<<"access-control-allow-credentials", "true">>}]

CORSMiddleware(rq, inner) ==
    IF rq.origin = "" THEN inner
    ELSE IF rq.method = "OPTIONS"
    THEN Returned(preflight_response(rq.origin), <<>>, "none", {})
    ELSE IF inner.kind = "response"
    THEN [inner EXCEPT !.resp.headers = @ \cup simple_headers(rq.origin)]
    ELSE inner

\* Variant: the middlewares run in the order of their registration.
user_middleware_registration_order ==
    <<"log_requests", "CORSMiddleware", "TrustedHostMiddleware">>

\* add_middleware puts each middleware in front of those added before it, so
\* the one registered last is the outermost.
user_middleware == <<"log_requests", "TrustedHostMiddleware", "CORSMiddleware">>

RECURSIVE RunStack(_, _, _)
RunStack(names, rq, c) ==
    IF names = <<>> THEN ExceptionMiddleware(Router(rq, c))
    ELSE CASE Head(names) = "TrustedHostMiddleware" ->
                TrustedHostMiddleware(rq, RunStack(Tail(names), rq, c))
           [] Head(names) = "CORSMiddleware" ->
                CORSMiddleware(rq, RunStack(Tail(names), rq, c))

\* What log_requests awaits: the application below it in the stack.
call_next(rq, c) == RunStack(Tail(user_middleware), rq, c)

----------------------------------------------------------------------------
(* log_requests, ServerErrorMiddleware and the server *)

\* Variant: log_requests catches what call_next raises and answers itself.
log_requests_resume_swallow(rq, start_time, inner, clock) ==
    LET status == IF inner.kind = "raise" THEN 500 ELSE inner.resp.status
    IN  [kind |-> "response", exc |-> NoExc, reads |-> 1,
         resp |-> IF inner.kind = "raise"
                  THEN PlainTextResponse("Internal Server Error", 500)
                  ELSE inner.resp,
         logs |-> << LogCall("DEBUG", "timing", "",
                             [method |-> rq.method, path |-> rq.path,
                              status |-> status, start |-> start_time,
                              elapsed |-> clock - start_time]) >>]

\* Variant: the start timestamp is kept in a module-level variable, which
\* every request overwrites on entry.
log_requests_resume_shared(rq, start_time, inner, clock) ==
    LET latest == CHOOSE t \in { req[q].start_time : q \in { q \in Slots : req[q].pc # "idle" } } :
                      \A q \in Slots : req[q].pc # "idle" => req[q].start_time <= t
    IN  IF inner.kind = "raise"
        THEN [kind |-> "raise", resp |-> NoResp, exc |-> inner.exc, logs |-> <<>>, reads |-> 0]
        ELSE [kind |-> "response", resp |-> inner.resp, exc |-> NoExc, reads |-> 1,
              logs |-> << LogCall("DEBUG", "timing", "",
                                  [method |-> rq.method, path |-> rq.path,
                                   status |-> inner.resp.status,
                                   start |-> latest,
                                   elapsed |-> clock - latest]) >>]

\* Lines 69-71 of log_requests, entered when `await call_next(request)` is
\* over. There is no try around the await: when it raised, the exception
\* leaves log_requests and lines 69-71 do not run.
log_requests_resume(rq, start_time, inner, clock) ==
    IF inner.kind = "raise"
    THEN [kind |-> "raise", resp |-> NoResp, exc |-> inner.exc, logs |-> <<>>, reads |-> 0]
    ELSE [kind |-> "response", resp |-> inner.resp, exc |-> NoExc, reads |-> 1,
          logs |-> << LogCall("DEBUG", "timing", "",
                              [method |-> rq.method, path |-> rq.path,
                               status |-> inner.resp.status,
                               start |-> start_time,
                               elapsed |-> clock - start_time]) >>]

\* Outermost: an exception that reaches it goes to the handler registered for
\* Exception, and what that handler returns is sent as the 500 response.
ServerError(out) ==
    IF out.kind = "response" THEN Returned(out.resp, <<>>, "none", {})
    ELSE LET h == general_exception_handler(out.exc)
             sent == SendHandled(h.value)
         IN  IF sent.kind = "sent"
             THEN Returned(sent.resp, h.logs, "none", {"general_exception_handler"})
             ELSE Raised(sent.exc, h.logs, "none", {"general_exception_handler"})

\* The ASGI server answers an application that raised before starting a
\* response with its own plain-text 500.
ServerReply(result) ==
    IF result.kind = "response" THEN result.resp
    ELSE PlainTextResponse("Internal Server Error", 500)

IdleReq ==
    [pc |-> "idle", rq |-> NoRequest, start_time |-> 0, script |-> NoScript,
     inner |-> NoResult, out |-> NoResult, top |-> {}, response |-> NoResp]

\* Line 67, up to the await of line 68.
log_requests_enter(r, requests) ==
    /\ phase = "serving"
    /\ req[r].pc = "idle"
    /\ \E rq \in requests :
         req' = [req EXCEPT ![r] = [@ EXCEPT !.pc = "awaiting", !.rq = rq,
                                            !.start_time = now]]
    /\ now' = now + 1
    /\ UNCHANGED <<phase, tablesCreated, calls>>

\* Line 68: everything below log_requests runs for this request.
log_requests_await(r, faults) ==
    /\ phase = "serving"
    /\ req[r].pc = "awaiting"
    /\ LET reached == call_next(req[r].rq, NoScript).endpoint
       IN  \E c \in Scripts(reached, faults) :
             LET inner == call_next(req[r].rq, c)
             IN  /\ req' = [req EXCEPT ![r] = [@ EXCEPT !.pc = "resumed", !.script = c,
                                                          !.inner = inner]]
                 /\ calls' = calls \o OnBehalf(inner.logs, r)
    /\ UNCHANGED <<phase, tablesCreated, now>>

\* Lines 69-71, or the exception leaving log_requests.
log_requests_exit(r) ==
    /\ phase = "serving"
    /\ req[r].pc = "resumed"
    /\ LET res == log_requests_resume(req[r].rq, req[r].start_time, req[r].inner, now)
       IN  /\ req' = [req EXCEPT ![r] = [@ EXCEPT !.pc = "returned",
                         !.out = [NoResult EXCEPT !.kind = res.kind, !.resp = res.resp,
                                                  !.exc = res.exc, !.logs = res.logs]]]
           /\ calls' = calls \o OnBehalf(res.logs, r)
           /\ now' = now + res.reads
    /\ UNCHANGED <<phase, tablesCreated>>

\* ServerErrorMiddleware and the server's reply to the client.
ServerErrorMiddleware(r) ==
    /\ phase = "serving"
    /\ req[r].pc = "returned"
    /\ LET result == ServerError(req[r].out)
       IN  /\ req' = [req EXCEPT ![r] = [@ EXCEPT !.pc = "done", !.top = result.handlers,
                                                    !.response = ServerReply(result)]]
           /\ calls' = calls \o OnBehalf(result.logs, r)
    /\ UNCHANGED <<phase, tablesCreated, now>>

----------------------------------------------------------------------------
(* Process lifetime *)

\* Module import: logging.basicConfig, Base.metadata.create_all, app = FastAPI(...)
create_all ==
    /\ phase = "init"
    /\ \/ phase' = "imported" /\ tablesCreated' = TRUE
       \/ phase' = "crashed" /\ tablesCreated' = FALSE
    /\ UNCHANGED <<now, calls, req>>

\* Variant: the yield is missing, so the whole body runs at startup.
lifespan_enter_logs_no_yield ==
    << LogCall("INFO", "startup_banner", "", NoInfo),
       LogCall("INFO", "shutdown_banner", "", NoInfo) >>

lifespan_enter_logs == << LogCall("INFO", "startup_banner", "", NoInfo) >>

lifespan_exit_logs == << LogCall("INFO", "shutdown_banner", "", NoInfo) >>

\* lifespan up to its yield: the server runs it before accepting requests.
lifespan_startup ==
    /\ phase = "imported"
    /\ phase' = "serving"
    /\ calls' = calls \o lifespan_enter_logs
    /\ UNCHANGED <<tablesCreated, now, req>>

\* lifespan after its yield: run on graceful shutdown, once the requests in
\* flight are answered.
lifespan_shutdown ==
    /\ phase = "serving"
    /\ \A r \in Slots : req[r].pc \in {"idle", "done"}
    /\ phase' = "stopped"
    /\ calls' = calls \o lifespan_exit_logs
    /\ UNCHANGED <<tablesCreated, now, req>>

\* The process is killed: nothing more runs.
Kill ==
    /\ phase \in {"imported", "serving"}
    /\ phase' = "killed"
    /\ UNCHANGED <<tablesCreated, now, calls, req>>

Lifetime == create_all \/ lifespan_startup \/ lifespan_shutdown \/ Kill

Pipeline(r, requests, faults) ==
    \/ log_requests_enter(r, requests)
    \/ log_requests_await(r, faults)
    \/ log_requests_exit(r)
    \/ ServerErrorMiddleware(r)

Init ==
    /\ phase = "init"
    /\ tablesCreated = FALSE
    /\ now = 0
    /\ calls = <<>>
    /\ req = [r \in Slots |-> IdleReq]

\* One request at a time, over every request and every collaborator failure.
Next == Lifetime \/ Pipeline(1, Requests, Faults)

Spec == Init /\ [][Next]_vars

OneFault == { CHOOSE f \in Faults : f.type = "OperationalError" }

\* Overlapping requests.
NextConc == Lifetime \/ \E r \in Slots : Pipeline(r, ConcRequests, OneFault)

SpecConc == Init /\ [][NextConc]_vars

----------------------------------------------------------------------------
(* Vocabulary of the properties *)

Answered(r) == req[r].pc = "done"

\* The request has come back to log_requests from the application below it.
Resumed(r) == req[r].pc \in {"resumed", "returned", "done"}

\* log_requests is over for the request.
Left(r) == req[r].pc \in {"returned", "done"}

\* What the endpoint of the request raised (NoExc: nothing, or no endpoint ran).
EndpointRaised(r) ==
    IF req[r].inner.endpoint = "none" THEN NoExc
    ELSE Endpoint(req[r].inner.endpoint, req[r].script).exc

\* The error text a client reads in a response.
ErrorText(resp) ==
    IF resp.media = "json"
    THEN IF "error" \in DOMAIN resp.json THEN resp.json.error
         ELSE IF "detail" \in DOMAIN resp.json THEN resp.json.detail
         ELSE ""
    ELSE resp.text

IsEnvelope(resp, error, status_code) ==
    resp.media = "json" /\ resp.json = Envelope(error, status_code)

HasHeader(resp, name) == \E h \in resp.headers : h[1] = name

Logged(r, text) == \E i \in DOMAIN calls : calls[i].req = r /\ calls[i].text = text

TimingCalls(r) == { i \in DOMAIN calls : calls[i].tag = "timing" /\ calls[i].req = r }

BannerAt(tag) == { i \in DOMAIN calls : calls[i].tag = tag }

NoRouteAt(path) == \A i \in DOMAIN Routes : Routes[i].path # path

Preflight(rq) == rq.method = "OPTIONS" /\ rq.origin # ""

\* The Host header names one of the three allowed hosts.
NamesAllowedHost(host) ==
    LET name == BeforeColon(host)
    IN  \/ name = <<"localhost">>
        \/ name = <<"127", ".", "0", ".", "0", ".", "1">>
        \/ EndsWith(name, <<".", "example", ".", "com">>)

HealthQueryFailed(r) ==
    /\ req[r].rq.method = "GET"
    /\ req[r].rq.path = <<"api", "health">>
    /\ req[r].inner.endpoint = "health_check"
    /\ req[r].script.site \in {"count", "manager"}

----------------------------------------------------------------------------
(* C1 *)

\* C1: whenever something inside the try block of health_check raises, the
\* client receives a 500 whose error text is "Health check failed", and the
\* text of the raised exception is in the server log and not in the response.
C1_HealthFailureGeneric ==
    \A r \in Slots :
        (Answered(r) /\ HealthQueryFailed(r)) =>
            /\ req[r].response.status = 500
            /\ ErrorText(req[r].response) = "Health check failed"
            /\ ErrorText(req[r].response) # req[r].script.exc.detail
            /\ Logged(r, req[r].script.exc.detail)

(* C2 *)

C3_HTTPExceptionOnTheWire ==
    \A r \in Slots :
        (Answered(r) /\ EndpointRaised(r).type = "HTTPException") =>
            /\ req[r].response.status = EndpointRaised(r).status_code
            /\ IsEnvelope(req[r].response, EndpointRaised(r).detail,
                          EndpointRaised(r).status_code)

(* C4 *)

\* C4: a request whose handling raises anything but an HTTPException is
\* answered with status 500 and the body {success: false, error: "Internal
\* server error", status_code: 500}, the same body whatever was raised.
C4_UnknownErrorEnvelope ==
    \A r \in Slots :
        (Answered(r) /\ EndpointRaised(r) \in Faults) =>
            /\ req[r].response.status = 500
            /\ IsEnvelope(req[r].response, "Internal server error", 500)

(* C5 *)

\* C5: a request whose Host header names none of localhost, 127.0.0.1 or a
\* subdomain of example.com is answered with a 4xx response and no route
\* handler runs for it; a request with Host localhost is handed on, so that
\* its outcome is the one of the CORS layer and route dispatch below.
C5_TrustedHost ==
    \A r \in Slots :
        Resumed(r) =>
            /\ ~NamesAllowedHost(req[r].rq.host) =>
                   /\ req[r].inner.kind = "response"
                   /\ req[r].inner.resp.status \in 400..499
                   /\ req[r].inner.endpoint = "none"
                   /\ Answered(r) => req[r].response.status \in 400..499
            /\ req[r].rq.host = LOCALHOST =>
                   /\ req[r].inner =
                          CORSMiddleware(req[r].rq,
                              ExceptionMiddleware(Router(req[r].rq, req[r].script)))
                   /\ (req[r].rq.method = "GET" /\ req[r].rq.path = <<"">>) =>
                          req[r].inner.endpoint = "root"

C5_Witness ==
    \E r \in Slots :
        /\ Answered(r)
        /\ req[r].rq.host = <<"attacker", ".", "com">>
        /\ req[r].rq.path = <<"api", "health">>
        /\ req[r].rq.method = "GET"
        /\ req[r].response.status = 400

(* C6 *)

\* C6 as stated: the response carries Access-Control-Allow-Origin exactly
\* when the Origin of the request is in CORS_ORIGINS, whatever else happens
\* to the request.
C6_Original ==
    \A r \in Slots :
        Answered(r) =>
            (HasHeader(req[r].response, ACAO) <=> req[r].rq.origin \in CORS_ORIGINS)

\* C6 amended: a request with a non-listed Origin never receives the header,
\* and a request with a listed Origin receives it exactly when its response
\* is produced at or below the CORS middleware: not on the 400 of the
\* trusted-host filter, which runs outside it, and not on the 500 the server
\* sends when an exception leaves the pipeline.
C6_Amended ==
    \A r \in Slots :
        Answered(r) =>
            (HasHeader(req[r].response, ACAO) <=>
                /\ req[r].rq.origin \in CORS_ORIGINS
                /\ NamesAllowedHost(req[r].rq.host)
                /\ req[r].inner.kind = "response")

C6_Witness ==
    \E r \in Slots :
        /\ Answered(r)
        /\ req[r].rq.origin \in CORS_ORIGINS
        /\ req[r].rq.host = <<"attacker", ".", "com">>
        /\ ~HasHeader(req[r].response, ACAO)

(* C7 *)

\* C7 as stated: a request with a trusted Host to a path that no route is
\* registered at is answered 404, without general_exception_handler.
C7_Original ==
    \A r \in Slots :
        (Answered(r) /\ NamesAllowedHost(req[r].rq.host) /\ NoRouteAt(req[r].rq.path)) =>
            /\ req[r].response.status = 404
            /\ "general_exception_handler" \notin req[r].top

\* C7 amended: a request with a trusted Host to a path that no route is
\* registered at never reaches general_exception_handler; it is answered 404
\* unless it is a CORS preflight (answered by the CORS middleware) or a route
\* is registered at the path with its trailing slash toggled (answered with a
\* 307 redirect to that path).
C7_Amended ==
    \A r \in Slots :
        (Answered(r) /\ NamesAllowedHost(req[r].rq.host) /\ NoRouteAt(req[r].rq.path)) =>
            /\ "general_exception_handler" \notin req[r].top
            /\ ~Preflight(req[r].rq) =>
                   IF NoRouteAt(ToggleSlash(req[r].rq.path))
                   THEN req[r].response.status = 404
                   ELSE req[r].response.status = 307
            /\ Preflight(req[r].rq) => req[r].response.status \in {200, 400}

C7_Witness ==
    \E r \in Slots :
        /\ Answered(r)
        /\ req[r].rq.host = LOCALHOST
        /\ req[r].rq.path = <<"nope">>
        /\ req[r].rq.method = "GET"
        /\ req[r].response.status = 404
        /\ "default_http_exception_handler" \in req[r].inner.handlers

(* C8 *)

\* C8: when the call to the next handler raises, the same exception leaves
\* log_requests, log_requests returns no response, and its completion step
\* (the second clock read and the timing record) does not run.
C8_NoSwallow ==
    \A r \in Slots :
        (Left(r) /\ req[r].inner.kind = "raise") =>
            /\ req[r].out.kind = "raise"
            /\ req[r].out.exc = req[r].inner.exc
            /\ req[r].out.resp = NoResp
            /\ TimingCalls(r) = {}
            /\ now = req[r].start_time + 1

C8_Witness ==
    \E r \in Slots :
        /\ Left(r)
        /\ req[r].inner.kind = "raise"
        /\ req[r].inner.exc \in Faults

(* C9 *)

\* C9: the tables are created before the startup banner; the startup banner
\* is logged once, before anything is logged for a request and before any
\* request is taken; the shutdown banner is logged once, only when the
\* process has shut down, and after the startup banner.
C9_Lifecycle ==
    /\ Cardinality(BannerAt("startup_banner")) <= 1
    /\ Cardinality(BannerAt("shutdown_banner")) <= 1
    /\ BannerAt("startup_banner") # {} => tablesCreated
    /\ phase \in {"serving", "stopped"} => BannerAt("startup_banner") = {1}
    /\ \A r \in Slots : req[r].pc # "idle" => BannerAt("startup_banner") = {1}
    /\ BannerAt("shutdown_banner") # {} <=> phase = "stopped"
    /\ \A i \in BannerAt("shutdown_banner") : i = Len(calls) /\ i > 1

C9_Witness ==
    /\ phase = "stopped"
    /\ \E r \in Slots : Answered(r)
    /\ Cardinality(BannerAt("shutdown_banner")) = 1

(* C10 *)

\* C10 as stated: every request whose downstream handling completes gets
\* exactly one elapsed-time report, an X-Process-Time header or the debug
\* line in the log, carrying its own method, path, status and start.
C10_Original ==
    \A r \in Slots :
        (Left(r) /\ req[r].inner.kind = "response") =>
            \/ HasHeader(req[r].out.resp, "x-process-time")
            \/ Cardinality({ i \in TimingCalls(r) : Emitted(calls[i]) }) = 1

\* C10 amended: log_requests wraps every request, those the trusted-host
\* filter rejects included, and for every request whose downstream handling
\* completes it builds exactly one timing record, from that request's own
\* method, path, status and start timestamp, and passes it to logger.debug;
\* the logger runs at INFO, so the record is not written, and no
\* X-Process-Time header is set.
C10_Amended ==
    \A r \in Slots :
        (Left(r) /\ req[r].inner.kind = "response") =>
            /\ Cardinality(TimingCalls(r)) = 1
            /\ \A i \in TimingCalls(r) :
                   /\ calls[i].info.method = req[r].rq.method
                   /\ calls[i].info.path = req[r].rq.path
                   /\ calls[i].info.status = req[r].inner.resp.status
                   /\ calls[i].info.start = req[r].start_time
                   /\ calls[i].level = "DEBUG"
                   /\ ~Emitted(calls[i])
            /\ ~HasHeader(req[r].out.resp, "x-process-time")

\* Two overlapping requests, one of them rejected by the trusted-host
\* filter: the second is taken while the first is in flight, and both are
\* timed.
C10_Witness ==
    \E r1, r2 \in Slots :
        /\ r1 # r2
        /\ Left(r1) /\ Left(r2)
        /\ req[r1].inner.kind = "response" /\ req[r2].inner.kind = "response"
        /\ req[r1].inner.resp.status = 200 /\ req[r2].inner.resp.status = 400
        /\ req[r1].start_time < req[r2].start_time
        /\ \E i \in TimingCalls(r1) :
               calls[i].info.start + calls[i].info.elapsed > req[r2].start_time
        /\ TimingCalls(r2) # {}

====
